---- MODULE Spec2Model ----
(***************************************************************************)
(* A model of the bit-set crate (src/src/lib.rs): BitSet<B = u32>, a set   *)
(* of usize backed by a bit_vec::BitVec<B>.                                *)
(*                                                                         *)
(* A block (one B) is modelled as the set of its 1-bit positions, a subset *)
(* of 0..W-1: bit i of the block is 1 iff i is in the set.  The bitwise    *)
(* operators are then the set operators, and +1, -1 and the unsigned       *)
(* comparison are defined on that representation with the wrap-around of   *)
(* a W-bit unsigned integer.                                               *)
(*                                                                         *)
(* A BitVec is [storage, nbits]: the Vec<B> of blocks and the logical      *)
(* length in bits.  The BitVec operations the set calls (new, from_elem,   *)
(* grow, get, index, set, clear, none, blocks, storage, truncate, set_len) *)
(* belong to the bit_vec crate; they are modelled from its contract.       *)
(*                                                                         *)
(* A call that panics is modelled by the outcome "panic".                  *)
(***************************************************************************)
EXTENDS Integers, Sequences, FiniteSets

\* B::bits() of the default block type, BitSet<B = u32>.
W == 32

\* The model inserts and removes the first NumVals values of
\* 0, W-1, W, 2W-1, 2W, ...: the first and the last bit of each block.
NumVals == 3

Val(i) == (i \div 2) * W + (IF i % 2 = 0 THEN 0 ELSE W - 1)
Values == { Val(i) : i \in 0..(NumVals - 1) }
\* with_capacity(n) is called with 0 and with v + 1 for each value v.
Caps == {0} \cup { v + 1 : v \in Values }

Names == {"a", "b"}
Other(r) == IF r = "a" THEN "b" ELSE "a"

Min(S) == CHOOSE x \in S : \A y \in S : x <= y
Max(S) == CHOOSE x \in S : \A y \in S : y <= x
min(x, y) == IF x <= y THEN x ELSE y
max(x, y) == IF x >= y THEN x ELSE y

-----------------------------------------------------------------------------
(* BitBlock: a W-bit unsigned integer as the set of its 1-bit positions.    *)

BitIdx == 0..(W - 1)
zero == {}
one == {0}
ones == BitIdx
not(w) == BitIdx \ w
bitor(w1, w2) == w1 \cup w2
bitand(w1, w2) == w1 \cap w2
\* a difference that complements the argument without masking by the receiver
diff_unmasked(w1, w2) == w1 \cup not(w2)
diff(w1, w2) == w1 \cap not(w2)
bitxor(w1, w2) == (w1 \ w2) \cup (w2 \ w1)
count_ones(w) == Cardinality(w)
\* 1 << b
shl_one(b) == {b}
\* w + 1 and w - 1 modulo 2^W
add_one(w) ==
    IF w = ones THEN zero
    ELSE LET z == Min(BitIdx \ w) IN { i \in w : i > z } \cup {z}
sub_one(w) ==
    IF w = zero THEN ones
    ELSE LET l == Min(w) IN (w \ {l}) \cup { i \in BitIdx : i < l }
\* the unsigned comparison of two blocks: "Less", "Equal" or "Greater"
block_cmp(w1, w2) ==
    IF w1 = w2 THEN "Equal"
    ELSE IF Max(bitxor(w1, w2)) \in w2 THEN "Less" ELSE "Greater"

-----------------------------------------------------------------------------
(* bit_vec::BitVec<B>                                                       *)

\* the sequence f[1], ..., f[n] as an explicit tuple
RECURSIVE AsTuple(_, _)
AsTuple(f, n) == IF n = 0 THEN << >> ELSE Append(AsTuple(f, n - 1), f[n])

\* n copies of x
Repeat(x, n) == AsTuple([ i \in 1..n |-> x ], n)

blocks_for_bits(bits) ==
    IF bits % W = 0 THEN bits \div W ELSE bits \div W + 1

BitVec_new == [storage |-> << >>, nbits |-> 0]

\* clears the bits of the last block that lie past nbits
fix_last_block(bv) ==
    LET extra_bits == bv.nbits % W
        mask == { i \in BitIdx : i < extra_bits }
        n == Len(bv.storage)
    IN  IF extra_bits > 0
        THEN [bv EXCEPT !.storage[n] = bitand(bv.storage[n], mask)]
        ELSE bv

\* BitVec::from_elem(nbits, false)
from_elem(nbits) ==
    fix_last_block([storage |-> Repeat(zero, blocks_for_bits(nbits)),
                    nbits |-> nbits])

\* BitVec::grow(n, false)
grow(bv, n) ==
    LET new_nbits == bv.nbits + n
        new_nblocks == blocks_for_bits(new_nbits)
        num_cur_blocks == blocks_for_bits(bv.nbits)
        len == Len(bv.storage)
        stop_idx == min(len, new_nblocks)
        \* blocks num_cur_blocks..stop_idx-1 (0-based) are overwritten with 0
        filled == AsTuple([ i \in 1..len |->
                              IF i - 1 >= num_cur_blocks /\ i - 1 < stop_idx
                              THEN zero ELSE bv.storage[i] ], len)
        extended == IF new_nblocks > len
                    THEN filled \o Repeat(zero, new_nblocks - len)
                    ELSE filled
    IN  fix_last_block([storage |-> extended, nbits |-> new_nbits])

\* BitVec::get(i): "None", "true" or "false"
get(bv, i) ==
    IF i >= bv.nbits THEN "None"
    ELSE LET w == i \div W
             b == i % W
         IN  IF w >= Len(bv.storage) THEN "None"
             ELSE IF bitand(bv.storage[w + 1], shl_one(b)) # zero
                  THEN "true" ELSE "false"

\* bit_vec[i]: get(i).expect("index out of bounds")
index(bv, i) == IF get(bv, i) = "None" THEN "panic" ELSE get(bv, i)

\* BitVec::set(i, x), called with i < nbits and a block at i / W
set(bv, i, x) ==
    LET w == i \div W
        flag == shl_one(i % W)
    IN  [bv EXCEPT !.storage[w + 1] =
            IF x THEN bitor(@, flag) ELSE bitand(@, not(flag))]

\* BitVec::clear(): every block becomes 0, the length stays
bv_clear(bv) == [bv EXCEPT !.storage = Repeat(zero, Len(bv.storage))]

\* BitVec::none()
none(bv) == \A i \in 1..Len(bv.storage) : bv.storage[i] = zero

\* BitVec::blocks(): the blocks of the storage, in order
blocks(bv) == bv.storage

\* Vec::truncate(n)
truncate(storage, n) == IF n < Len(storage) THEN SubSeq(storage, 1, n) ELSE storage

\* BitVec::set_len(len)
set_len(bv, len) == [bv EXCEPT !.nbits = len]

-----------------------------------------------------------------------------
(* BitSet: construction and the scalar operations                           *)

new == [bit_vec |-> BitVec_new]

from_bit_vec(bit_vec) == [bit_vec |-> bit_vec]

with_capacity(nbits) == from_bit_vec(from_elem(nbits))

\* "true", "false", or "panic" when bit_vec[value] finds no block
contains(self, value) ==
    IF value < self.bit_vec.nbits THEN index(self.bit_vec, value) ELSE "false"

\* insert(value): [set, ret]
insert(self, value) ==
    LET c == contains(self, value)
        len == self.bit_vec.nbits
        grown == IF value >= len
                 THEN grow(self.bit_vec, value - len + 1)
                 ELSE self.bit_vec
    IN  IF c = "panic" THEN [set |-> self, ret |-> "panic"]
        ELSE IF c = "true" THEN [set |-> self, ret |-> "false"]
        ELSE [set |-> [bit_vec |-> set(grown, value, TRUE)], ret |-> "true"]

\* remove(value): [set, ret]
remove(self, value) ==
    LET c == contains(self, value)
    IN  IF c = "panic" THEN [set |-> self, ret |-> "panic"]
        ELSE IF c = "false" THEN [set |-> self, ret |-> "false"]
        ELSE [set |-> [bit_vec |-> set(self.bit_vec, value, FALSE)], ret |-> "true"]

clear(self) == [bit_vec |-> bv_clear(self.bit_vec)]

\* the number of trailing zero blocks: storage.iter().rev().take_while(== 0).count()
trailing_zero_blocks(storage) ==
    LET n == Len(storage)
        nz == { i \in 1..n : storage[i] # zero }
    IN  IF nz = {} THEN n ELSE n - Max(nz)

shrink_to_fit(self) ==
    LET old_len == Len(self.bit_vec.storage)
        n == trailing_zero_blocks(self.bit_vec.storage)
        trunc_len == max(old_len - n, 1)
    IN  [bit_vec |-> set_len([self.bit_vec EXCEPT
                                 !.storage = truncate(self.bit_vec.storage, trunc_len)],
                             trunc_len * W)]

-----------------------------------------------------------------------------
(* match_words and the in-place operators                                   *)

\* blocks().enumerate(): the pairs <<index, block>>, the index from 0
enumerate(storage) ==
    AsTuple([ i \in 1..Len(storage) |-> <<i - 1, storage[i]>> ], Len(storage))

\* repeat(0).enumerate().take(t).skip(s): <<s, 0>>, ..., <<t - 1, 0>>
padding(t, s) ==
    LET n == IF t > s THEN t - s ELSE 0
    IN  AsTuple([ i \in 1..n |-> <<s + i - 1, zero>> ], n)

\* match_words without the padding of the shorter storage
match_words_unpadded(a, b) == << enumerate(blocks(a)), enumerate(blocks(b)) >>

\* the two word iterators, the shorter storage padded with 0 blocks: <<a's, b's>>
match_words(a, b) ==
    LET a_len == Len(a.storage)
        b_len == Len(b.storage)
    IN  IF a_len < b_len
        THEN << enumerate(blocks(a)) \o padding(b_len, a_len),
                enumerate(blocks(b)) \o padding(0, 0) >>
        ELSE << enumerate(blocks(a)) \o padding(0, 0),
                enumerate(blocks(b)) \o padding(a_len, b_len) >>

\* the closures handed to other_op and the merge functions of the iterators
apply(f, w1, w2) ==
    CASE f = "or" -> bitor(w1, w2)
      [] f = "bitand" -> bitand(w1, w2)
      [] f = "diff" -> diff(w1, w2)
      [] f = "bitxor" -> bitxor(w1, w2)

\* the loop of other_op from its k-th word on: storage[i] = f(storage[i], w),
\* a panic when storage has no block i
RECURSIVE apply_words(_, _, _, _)
apply_words(bv, words, k, f) ==
    IF k > Len(words) THEN [bit_vec |-> bv, ret |-> "ok"]
    ELSE LET i == words[k][1]
             w == words[k][2]
         IN  IF i >= Len(bv.storage) THEN [bit_vec |-> bv, ret |-> "panic"]
             ELSE apply_words([bv EXCEPT !.storage[i + 1] = apply(f, @, w)],
                              words, k + 1, f)

\* other_op(other, f): [set, ret]
other_op(self, other, f) ==
    LET self_len == self.bit_vec.nbits
        other_len == other.bit_vec.nbits
        self_bit_vec == IF self_len < other_len
                        THEN grow(self.bit_vec, other_len - self_len)
                        ELSE self.bit_vec
        other_words == match_words(self_bit_vec, other.bit_vec)[2]
        res == apply_words(self_bit_vec, other_words, 1, f)
    IN  [set |-> [bit_vec |-> res.bit_vec], ret |-> res.ret]

union_with(self, other) == other_op(self, other, "or")
intersect_with(self, other) == other_op(self, other, "bitand")
difference_with(self, other) == other_op(self, other, "diff")
symmetric_difference_with(self, other) == other_op(self, other, "bitxor")

-----------------------------------------------------------------------------
(* BlockIter and TwoBitPositions                                            *)

\* A block iterator: Blocks (one storage) or TwoBitPositions (two, merged).
Blocks(storage) == [set |-> storage, other |-> << >>, merge |-> "none"]
TwoBitPositions(set_, other, merge) == [set |-> set_, other |-> other, merge |-> merge]

\* tail.next() of a TwoBitPositions that ends with its shorter storage
tail_next_shorter(t) ==
    IF t.merge = "none"
    THEN IF t.set = << >> THEN [tail |-> t, some |-> FALSE, w |-> zero]
         ELSE [tail |-> [t EXCEPT !.set = Tail(t.set)], some |-> TRUE, w |-> Head(t.set)]
    ELSE IF t.set # << >> /\ t.other # << >>
         THEN [tail |-> [t EXCEPT !.set = Tail(t.set), !.other = Tail(t.other)],
               some |-> TRUE, w |-> apply(t.merge, Head(t.set), Head(t.other))]
         ELSE [tail |-> t, some |-> FALSE, w |-> zero]

\* tail.next(): [tail, some, w]
tail_next(t) ==
    IF t.merge = "none"
    THEN IF t.set = << >> THEN [tail |-> t, some |-> FALSE, w |-> zero]
         ELSE [tail |-> [t EXCEPT !.set = Tail(t.set)], some |-> TRUE, w |-> Head(t.set)]
    ELSE LET rest == [t EXCEPT !.set = IF t.set = << >> THEN << >> ELSE Tail(t.set),
                               !.other = IF t.other = << >> THEN << >> ELSE Tail(t.other)]
         IN  IF t.set # << >> /\ t.other # << >>
             THEN [tail |-> rest, some |-> TRUE, w |-> apply(t.merge, Head(t.set), Head(t.other))]
             ELSE IF t.set # << >>
             THEN [tail |-> rest, some |-> TRUE, w |-> apply(t.merge, Head(t.set), zero)]
             ELSE IF t.other # << >>
             THEN [tail |-> rest, some |-> TRUE, w |-> apply(t.merge, zero, Head(t.other))]
             ELSE [tail |-> rest, some |-> FALSE, w |-> zero]

\* BlockIter::from_blocks
from_blocks(blocks_) ==
    LET n == tail_next(blocks_)
    IN  [head |-> IF n.some THEN n.w ELSE zero, head_offset |-> 0, tail |-> n.tail]

\* the loop of BlockIter::next with head_offset left as it is
RECURSIVE refill_stale_offset(_)
refill_stale_offset(it) ==
    IF it.head # zero THEN [it |-> it, some |-> TRUE]
    ELSE LET n == tail_next(it.tail)
         IN  IF ~n.some THEN [it |-> [it EXCEPT !.tail = n.tail], some |-> FALSE]
             ELSE refill_stale_offset([head |-> n.w,
                                       head_offset |-> it.head_offset,
                                       tail |-> n.tail])

\* the loop of BlockIter::next, "while self.head == 0": [it, some]
RECURSIVE refill(_)
refill(it) ==
    IF it.head # zero THEN [it |-> it, some |-> TRUE]
    ELSE LET n == tail_next(it.tail)
         IN  IF ~n.some THEN [it |-> [it EXCEPT !.tail = n.tail], some |-> FALSE]
             ELSE refill([head |-> n.w,
                          head_offset |-> it.head_offset + W,
                          tail |-> n.tail])

\* BlockIter::next with k left as the isolated lowest bit, not the mask below it
BlockIter_next_unmasked(it) ==
    LET r == refill(it)
        head == r.it.head
        k == bitand(head, add_one(not(head)))
    IN  IF ~r.some THEN [it |-> r.it, some |-> FALSE, val |-> 0]
        ELSE [it |-> [r.it EXCEPT !.head = bitand(head, sub_one(head))],
              some |-> TRUE,
              val |-> r.it.head_offset + count_ones(k)]

\* BlockIter::next: [it, some, val]
BlockIter_next(it) ==
    LET r == refill(it)
        head == r.it.head
        k == sub_one(bitand(head, add_one(not(head))))
    IN  IF ~r.some THEN [it |-> r.it, some |-> FALSE, val |-> 0]
        ELSE [it |-> [r.it EXCEPT !.head = bitand(head, sub_one(head))],
              some |-> TRUE,
              val |-> r.it.head_offset + count_ones(k)]

\* everything a BlockIter yields, in the order it yields it
RECURSIVE collect(_)
collect(it) ==
    LET n == BlockIter_next(it)
    IN  IF n.some THEN <<n.val>> \o collect(n.it) ELSE << >>

\* Take<I>: at most n items
take(items, n) == SubSeq(items, 1, min(n, Len(items)))

iter(self) == collect(from_blocks(Blocks(blocks(self.bit_vec))))

union(self, other) ==
    collect(from_blocks(TwoBitPositions(blocks(self.bit_vec), blocks(other.bit_vec), "or")))

intersection(self, other) ==
    take(collect(from_blocks(TwoBitPositions(blocks(self.bit_vec), blocks(other.bit_vec),
                                             "bitand"))),
         min(self.bit_vec.nbits, other.bit_vec.nbits))

difference(self, other) ==
    collect(from_blocks(TwoBitPositions(blocks(self.bit_vec), blocks(other.bit_vec), "diff")))

symmetric_difference(self, other) ==
    collect(from_blocks(TwoBitPositions(blocks(self.bit_vec), blocks(other.bit_vec),
                                        "bitxor")))

-----------------------------------------------------------------------------
(* len, is_subset, Eq, Ord, Hash                                            *)

RECURSIVE sum_ones(_)
sum_ones(storage) ==
    IF storage = << >> THEN 0 ELSE count_ones(Head(storage)) + sum_ones(Tail(storage))

len(self) == sum_ones(blocks(self.bit_vec))

is_empty(self) == none(self.bit_vec)

is_disjoint(self, other) == intersection(self, other) = << >>

is_subset(self, other) ==
    LET s == blocks(self.bit_vec)
        o == blocks(other.bit_vec)
        other_blocks == blocks_for_bits(other.bit_vec.nbits)
    IN  /\ \A i \in 1..min(Len(s), Len(o)) : bitand(s[i], o[i]) = s[i]
        /\ \A i \in 1..Len(s) : i > other_blocks => s[i] = zero

is_superset(self, other) == is_subset(other, self)

\* the comparison of two <<index, block>> pairs: the index first, then the block
pair_cmp(x, y) ==
    IF x[1] < y[1] THEN "Less"
    ELSE IF x[1] > y[1] THEN "Greater"
    ELSE block_cmp(x[2], y[2])

\* iter::order::cmp
RECURSIVE order_cmp(_, _)
order_cmp(a, b) ==
    IF a = << >> /\ b = << >> THEN "Equal"
    ELSE IF a = << >> THEN "Less"
    ELSE IF b = << >> THEN "Greater"
    ELSE IF pair_cmp(Head(a), Head(b)) # "Equal" THEN pair_cmp(Head(a), Head(b))
    ELSE order_cmp(Tail(a), Tail(b))

\* iter::order::eq
RECURSIVE order_eq(_, _)
order_eq(a, b) ==
    IF a = << >> /\ b = << >> THEN TRUE
    ELSE IF a = << >> \/ b = << >> THEN FALSE
    ELSE IF Head(a) # Head(b) THEN FALSE
    ELSE order_eq(Tail(a), Tail(b))

\* cmp with the two word iterators taken in the wrong order
cmp_swapped(self, other) ==
    LET m == match_words(self.bit_vec, other.bit_vec) IN order_cmp(m[2], m[1])

cmp(self, other) ==
    LET m == match_words(self.bit_vec, other.bit_vec) IN order_cmp(m[1], m[2])

eq(self, other) ==
    LET m == match_words(self.bit_vec, other.bit_vec) IN order_eq(m[1], m[2])

\* Hash: the positions fed to the hasher, in order
hash(self) == iter(self)

-----------------------------------------------------------------------------
VARIABLES
    sets,   \* the two sets, a and b
    last,   \* the last call: [op, who, v, ret]
    run     \* a live BlockIter: [src, it, out, nones]

vars == <<sets, last, run>>

\* a BlockIter over the blocks src, before its first next(): it is the iterator,
\* out what it has yielded so far, nones how often next() has returned None
Start(src) ==
    [src |-> src, it |-> from_blocks(Blocks(src)), out |-> << >>, nones |-> 0]

Init ==
    /\ sets = [ r \in Names |-> new ]
    /\ last = [op |-> "new", who |-> "a", v |-> 0, ret |-> "ok"]
    /\ run = Start(<< >>)

New(r) ==
    /\ sets' = [sets EXCEPT ![r] = new]
    /\ last' = [op |-> "new", who |-> r, v |-> 0, ret |-> "ok"]

WithCapacity(r, n) ==
    /\ sets' = [sets EXCEPT ![r] = with_capacity(n)]
    /\ last' = [op |-> "with_capacity", who |-> r, v |-> n, ret |-> "ok"]

Insert(r, v) ==
    LET res == insert(sets[r], v)
    IN  /\ sets' = [sets EXCEPT ![r] = res.set]
        /\ last' = [op |-> "insert", who |-> r, v |-> v, ret |-> res.ret]

Remove(r, v) ==
    LET res == remove(sets[r], v)
    IN  /\ sets' = [sets EXCEPT ![r] = res.set]
        /\ last' = [op |-> "remove", who |-> r, v |-> v, ret |-> res.ret]

Clear(r) ==
    /\ sets' = [sets EXCEPT ![r] = clear(sets[r])]
    /\ last' = [op |-> "clear", who |-> r, v |-> 0, ret |-> "ok"]

ShrinkToFit(r) ==
    /\ sets' = [sets EXCEPT ![r] = shrink_to_fit(sets[r])]
    /\ last' = [op |-> "shrink_to_fit", who |-> r, v |-> 0, ret |-> "ok"]

UnionWith(r) ==
    LET res == union_with(sets[r], sets[Other(r)])
    IN  /\ sets' = [sets EXCEPT ![r] = res.set]
        /\ last' = [op |-> "union_with", who |-> r, v |-> 0, ret |-> res.ret]

IntersectWith(r) ==
    LET res == intersect_with(sets[r], sets[Other(r)])
    IN  /\ sets' = [sets EXCEPT ![r] = res.set]
        /\ last' = [op |-> "intersect_with", who |-> r, v |-> 0, ret |-> res.ret]

DifferenceWith(r) ==
    LET res == difference_with(sets[r], sets[Other(r)])
    IN  /\ sets' = [sets EXCEPT ![r] = res.set]
        /\ last' = [op |-> "difference_with", who |-> r, v |-> 0, ret |-> res.ret]

SymmetricDifferenceWith(r) ==
    LET res == symmetric_difference_with(sets[r], sets[Other(r)])
    IN  /\ sets' = [sets EXCEPT ![r] = res.set]
        /\ last' = [op |-> "symmetric_difference_with", who |-> r, v |-> 0, ret |-> res.ret]

Next ==
    /\ \E r \in Names :
        \/ New(r)
        \/ \E n \in Caps : WithCapacity(r, n)
        \/ \E v \in Values : Insert(r, v)
        \/ \E v \in Values : Remove(r, v)
        \/ Clear(r)
        \/ ShrinkToFit(r)
        \/ UnionWith(r)
        \/ IntersectWith(r)
        \/ DifferenceWith(r)
        \/ SymmetricDifferenceWith(r)
    /\ UNCHANGED run

Spec == Init /\ [][Next]_vars

-----------------------------------------------------------------------------
(* One BlockIter, called again and again                                    *)

\* the bit positions the blocks of an iterated storage are drawn from
IterBits == {0, 1, W - 2, W - 1}
\* the longest iterated storage, in blocks
MaxBlocks == 2
\* how often next() is called again once it has returned None
MaxNones == 2

IterBlocks == (SUBSET IterBits) \cup {ones}
IterSources == UNION { [1..n -> IterBlocks] : n \in 0..MaxBlocks }

InitIter ==
    /\ sets = [ r \in Names |-> new ]
    /\ last = [op |-> "new", who |-> "a", v |-> 0, ret |-> "ok"]
    /\ \E src \in IterSources : run = Start(AsTuple(src, Len(src)))

\* one call of next() on the live iterator
IterNext ==
    /\ run.nones < MaxNones
    /\ LET n == BlockIter_next(run.it)
       IN  run' = [run EXCEPT !.it = n.it,
                              !.out = IF n.some THEN Append(@, n.val) ELSE @,
                              !.nones = IF n.some THEN @ ELSE @ + 1]
    /\ UNCHANGED <<sets, last>>

NextIter == IterNext

SpecIter == InitIter /\ [][NextIter]_vars

-----------------------------------------------------------------------------
(* What the claims speak of                                                 *)

\* every position of a block the model can allocate, and one past the last
Universe == 0..(W * ((NumVals - 1) \div 2 + 1))

\* the members of a set: the values contains() answers true for
Elems(self) == { v \in Universe : contains(self, v) = "true" }

Range(seq) == { seq[i] : i \in 1..Len(seq) }
StrictlyAscending(seq) == \A i \in 1..(Len(seq) - 1) : seq[i] < seq[i + 1]
\* seq yields exactly the members of S, ascending, each once
Yields(seq, S) == StrictlyAscending(seq) /\ Range(seq) = S

\* FromIterator: new(), then insert() of each value in turn
RECURSIVE from_iter(_)
from_iter(vals) ==
    IF vals = << >> THEN new
    ELSE insert(from_iter(SubSeq(vals, 1, Len(vals) - 1)), vals[Len(vals)]).set

InPlaceOps == {"union_with", "intersect_with", "difference_with",
               "symmetric_difference_with"}

\* C1 as claimed: insert(v) returns true exactly when v was absent, v is a
\* member afterwards, no other membership changes, and a second insert(v)
\* returns false and changes nothing.
C1_InsertContract ==
    [][\A r \in Names : \A v \in Values :
          (last'.op = "insert" /\ last'.who = r /\ last'.v = v) =>
              /\ last'.ret = (IF contains(sets[r], v) = "false" THEN "true" ELSE "false")
              /\ contains(sets'[r], v) = "true"
              /\ \A u \in Universe \ {v} : contains(sets'[r], u) = contains(sets[r], u)
              /\ insert(sets'[r], v) = [set |-> sets'[r], ret |-> "false"]
      ]_vars

\* C2 as claimed: remove(v) of a member returns true and v is absent afterwards,
\* no other membership changing; remove(v) of a non-member returns false and
\* changes nothing; the length and the block count never decrease.
C2_RemoveContract ==
    [][\A r \in Names : \A v \in Values :
          (last'.op = "remove" /\ last'.who = r /\ last'.v = v) =>
              /\ last'.ret = (IF contains(sets[r], v) = "true" THEN "true" ELSE "false")
              /\ contains(sets'[r], v) = "false"
              /\ \A u \in Universe \ {v} : contains(sets'[r], u) = contains(sets[r], u)
              /\ last'.ret = "false" => sets'[r] = sets[r]
              /\ sets'[r].bit_vec.nbits >= sets[r].bit_vec.nbits
              /\ Len(sets'[r].bit_vec.storage) >= Len(sets[r].bit_vec.storage)
      ]_vars

\* what an in-place operator is to leave in a, as sets of members
Expected(op, A, B) ==
    CASE op = "union_with" -> A \cup B
      [] op = "intersect_with" -> A \cap B
      [] op = "difference_with" -> A \ B
      [] op = "symmetric_difference_with" -> (A \ B) \cup (B \ A)

\* C3 as claimed: a.union_with(b), a.intersect_with(b), a.difference_with(b) and
\* a.symmetric_difference_with(b) complete and leave in a exactly old(a) \cup b,
\* old(a) \cap b, old(a) \ b and old(a) xor b, and b unchanged.
C3_InPlaceOps ==
    [][\A r \in Names :
          (last'.op \in InPlaceOps /\ last'.who = r) =>
              /\ last'.ret = "ok"
              /\ Elems(sets'[r]) = Expected(last'.op, Elems(sets[r]), Elems(sets[Other(r)]))
              /\ sets'[Other(r)] = sets[Other(r)]
      ]_vars

\* the example of the documentation: A = {1, 2, 4}, B = {0, 2}
ExampleA == from_iter(<<1, 2, 4>>)
ExampleB == from_iter(<<0, 2>>)

IteratorsYield(x, y) ==
    /\ Yields(union(x, y), Elems(x) \cup Elems(y))
    /\ Yields(intersection(x, y), Elems(x) \cap Elems(y))
    /\ Yields(difference(x, y), Elems(x) \ Elems(y))
    /\ Yields(symmetric_difference(x, y), (Elems(x) \ Elems(y)) \cup (Elems(y) \ Elems(x)))

\* C4: for any two reachable sets, in either order, union, intersection,
\* difference and symmetric_difference yield, strictly ascending and each once,
\* exactly the members of the set they name; the cap take(min of the two
\* lengths in bits) of intersection drops no common member; and the documented
\* example gives {0,1,2,4}, {2}, {1,4}, {0,1,4} and B \ A = {0}.
C4_Iterators ==
    /\ \A r \in Names : IteratorsYield(sets[r], sets[Other(r)])
    /\ union(ExampleA, ExampleB) = <<0, 1, 2, 4>>
    /\ intersection(ExampleA, ExampleB) = <<2>>
    /\ difference(ExampleA, ExampleB) = <<1, 4>>
    /\ difference(ExampleB, ExampleA) = <<0>>
    /\ symmetric_difference(ExampleA, ExampleB) = <<0, 1, 4>>

\* C4's case: operands of different block counts with common and uncommon
\* members, the intersection as long as its cap allows.
C4_Witness ==
    /\ Len(sets["a"].bit_vec.storage) = 1
    /\ Len(sets["b"].bit_vec.storage) = 2
    /\ Len(intersection(sets["a"], sets["b"])) = sets["a"].bit_vec.nbits
    /\ intersection(sets["a"], sets["b"]) # << >>
    /\ difference(sets["b"], sets["a"]) # << >>
    /\ Len(union(sets["a"], sets["b"])) >= 3

\* C5: iter() yields v iff contains(v) is true (v is below the length and bit v
\* is set), and len() is the number of values iter() yields.
C5_IterContainsLen ==
    \A r \in Names :
        /\ \A v \in Universe :
              (v \in Range(iter(sets[r]))) <=> (contains(sets[r], v) = "true")
        /\ \A v \in Universe :
              (contains(sets[r], v) = "true") <=>
                  /\ v < sets[r].bit_vec.nbits
                  /\ v \div W < Len(sets[r].bit_vec.storage)
                  /\ (v % W) \in sets[r].bit_vec.storage[v \div W + 1]
        /\ len(sets[r]) = Len(iter(sets[r]))

\* C5's case: a set of two blocks with members in both, its length no multiple
\* of the block width.
C5_Witness ==
    /\ Len(iter(sets["a"])) >= 3
    /\ sets["a"].bit_vec.nbits % W # 0
    /\ \E v \in Values : v >= W /\ contains(sets["a"], v) = "true"

\* C6 as claimed: a.is_subset(b) is true iff every member of a is a member of b
\* (and then b.is_superset(a) is the same answer).
C6_SubsetIffMembers ==
    \A r \in Names :
        /\ is_subset(sets[r], sets[Other(r)]) <=> (Elems(sets[r]) \subseteq Elems(sets[Other(r)]))
        /\ is_superset(sets[Other(r)], sets[r]) <=> (Elems(sets[r]) \subseteq Elems(sets[Other(r)]))

\* C7: a == b iff a and b have the same members, whatever their lengths and
\* trailing zero blocks; cmp(a, b) is Equal iff a == b; equal sets feed the
\* same positions to the hasher.
C7_EqOrdHash ==
    \A r \in Names :
        LET x == sets[r]
            y == sets[Other(r)]
        IN  /\ eq(x, y) <=> (Elems(x) = Elems(y))
            /\ (cmp(x, y) = "Equal") <=> eq(x, y)
            /\ eq(x, y) => hash(x) = hash(y)

\* C7's case: two equal, non-empty sets of different lengths and block counts.
C7_Witness ==
    /\ eq(sets["a"], sets["b"])
    /\ Elems(sets["a"]) # {}
    /\ Len(sets["a"].bit_vec.storage) # Len(sets["b"].bit_vec.storage)
    /\ sets["a"].bit_vec.nbits # sets["b"].bit_vec.nbits

SymDiff(A, B) == (A \ B) \cup (B \ A)

\* C8 as claimed: cmp(a, b) is decided at the smallest position at which the
\* memberships differ (the bit sequences, the shorter padded with 0, compared
\* lexicographically): a < b iff that position is a member of b.
C8_DecidedAtSmallest ==
    \A r \in Names :
        LET x == sets[r]
            y == sets[Other(r)]
            d == SymDiff(Elems(x), Elems(y))
        IN  cmp(x, y) = (IF d = {} THEN "Equal"
                         ELSE IF Min(d) \in Elems(y) THEN "Less" ELSE "Greater")

\* C8 amended: cmp(a, b) is decided in the first block in which the
\* memberships differ, by comparing the two blocks as unsigned integers: at the
\* largest position of that block at which the memberships differ; a < b iff
\* that position is a member of b.
C8_DecidedInFirstBlock ==
    \A r \in Names :
        LET x == sets[r]
            y == sets[Other(r)]
            d == SymDiff(Elems(x), Elems(y))
            blk == Min(d) \div W
            q == Max({ p \in d : p \div W = blk })
        IN  cmp(x, y) = (IF d = {} THEN "Equal"
                         ELSE IF q \in Elems(y) THEN "Less" ELSE "Greater")

\* C8's case: a < b although the smallest differing position is a member of a.
C8_Witness ==
    LET d == SymDiff(Elems(sets["a"]), Elems(sets["b"]))
    IN  /\ d # {}
        /\ Min(d) \in Elems(sets["a"])
        /\ cmp(sets["a"], sets["b"]) = "Less"
        /\ Len(sets["a"].bit_vec.storage) # Len(sets["b"].bit_vec.storage)

\* C9 as claimed: no call panics, and contains(v) answers for every v, false for
\* every v at or past the length.
C9_Total ==
    /\ last.ret # "panic"
    /\ \A r \in Names : \A v \in Universe :
          /\ contains(sets[r], v) \in {"true", "false"}
          /\ v >= sets[r].bit_vec.nbits => contains(sets[r], v) = "false"

\* C10 as claimed: shrink_to_fit changes the answer of contains(v) for no v, and
\* the set after compares equal to the set before.
C10_ShrinkKeepsMembers ==
    [][\A r \in Names :
          (last'.op = "shrink_to_fit" /\ last'.who = r) =>
              /\ \A v \in Universe : contains(sets'[r], v) = contains(sets[r], v)
              /\ eq(sets'[r], sets[r])
      ]_vars

\* C11 as claimed: right after shrink_to_fit the storage holds at least one
\* block, no all-zero block after the first one ends it, and the length is the
\* block count times W.
C11_ShrinkPostcondition ==
    last.op = "shrink_to_fit" =>
        LET bv == sets[last.who].bit_vec
            n  == Len(bv.storage)
        IN  /\ n >= 1
            /\ n > 1 => bv.storage[n] # zero
            /\ bv.nbits = n * W

\* the positions of the 1-bits the allocated blocks physically hold
PhysicalBits(self) ==
    UNION { { (i - 1) * W + b : b \in self.bit_vec.storage[i] } :
                i \in 1..Len(self.bit_vec.storage) }

\* C12 (invariant I1): in every reachable state no allocated block holds a 1-bit
\* at a position at or past the logical length, whichever operation came last,
\* difference_with and symmetric_difference_with included.
C12_NoBitPastLength ==
    \A r \in Names : \A p \in PhysicalBits(sets[r]) : p < sets[r].bit_vec.nbits

\* difference_with has just run on a receiver whose last block is only partly
\* inside its length against a shorter argument, so that the argument's missing
\* blocks were read as zero and complemented, and the receiver kept a member
C12_Witness ==
    /\ last.op = "difference_with"
    /\ last.ret = "ok"
    /\ sets[last.who].bit_vec.nbits % W # 0
    /\ Len(sets[Other(last.who)].bit_vec.storage)
           < Len(sets[last.who].bit_vec.storage)
    /\ Elems(sets[last.who]) # {}

\* C13 as claimed: in every reachable state the length is at most the block
\* count times W, and the block count is blocks_for_bits(length).
C13_StorageInvariant ==
    \A r \in Names :
        LET bv == sets[r].bit_vec
        IN  /\ bv.nbits <= Len(bv.storage) * W
            /\ Len(bv.storage) = blocks_for_bits(bv.nbits)

\* the receiver's bit vector when the block-writing loop of other_op starts
Grown(self, other) ==
    IF self.bit_vec.nbits < other.bit_vec.nbits
    THEN grow(self.bit_vec, other.bit_vec.nbits - self.bit_vec.nbits)
    ELSE self.bit_vec

\* the block indices the loop of other_op is handed to write
LoopIndices(self, other) ==
    { w[1] : w \in Range(match_words(Grown(self, other), other.bit_vec)[2]) }

\* after a.op_with(b) the length of a is the larger of the two lengths
LengthIsMax(a, b, after) ==
    after.bit_vec.nbits = max(a.bit_vec.nbits, b.bit_vec.nbits)

\* intersect_with and difference_with leave no member at or past a's old length
GrownWithZeros(op, a, after) ==
    op \in {"intersect_with", "difference_with"} =>
        \A v \in Universe : v >= a.bit_vec.nbits => contains(after, v) = "false"

\* every index of the loop is below a's block count, which the loop keeps
LoopInBounds(a, b, after) ==
    /\ \A i \in LoopIndices(a, b) : i < Len(Grown(a, b).storage)
    /\ Len(after.bit_vec.storage) = Len(Grown(a, b).storage)

\* C14 as claimed: each in-place operator leaves a with the length
\* max(old length of a, length of b), grown with zero bits, and its loop writes
\* only block indices below a's block count and keeps the block count.
C14_InPlaceLength ==
    [][\A r \in Names :
          (last'.op \in InPlaceOps /\ last'.who = r) =>
              /\ LengthIsMax(sets[r], sets[Other(r)], sets'[r])
              /\ GrownWithZeros(last'.op, sets[r], sets'[r])
              /\ LoopInBounds(sets[r], sets[Other(r)], sets'[r])
      ]_vars

\* the position of every 1-bit of a sequence of blocks
BitPositions(src) ==
    UNION { { (i - 1) * W + b : b \in src[i] } : i \in 1..Len(src) }

\* a call of next() that yields: the head the loop of next() stops at is
\* nonzero, neither "!head + 1" nor "... - 1" wraps around, popcount(k) is the
\* index of the lowest 1-bit of head, exactly that bit is cleared, head_offset
\* is W times the index of the block head came from, the yield is head_offset
\* plus the bit index, is the position of a 1-bit of the source and is larger
\* than the yield before it
YieldOk ==
    LET r == refill(run.it)
        head == r.it.head
        low == bitand(head, add_one(not(head)))
        k == sub_one(low)
        block_index == Len(run.src) - Len(r.it.tail.set) - 1
        v == run'.out[Len(run'.out)]
    IN  /\ run.nones = 0
        /\ head # zero
        /\ not(head) # ones
        /\ low # zero
        /\ count_ones(k) = Min(head)
        /\ run'.it.head = head \ {Min(head)}
        /\ r.it.head_offset = block_index * W
        /\ run'.it.head_offset = r.it.head_offset
        /\ v = r.it.head_offset + Min(head)
        /\ v \in BitPositions(run.src)
        /\ run.out # << >> => v > run.out[Len(run.out)]

\* a call of next() that returns None: everything the source holds has been
\* yielded, and after an earlier None head_offset stays as it is
NoneOk ==
    /\ run'.out = run.out
    /\ Range(run.out) = BitPositions(run.src)
    /\ run.nones > 0 => run'.it.head_offset = run.it.head_offset

\* C15: every call of next() on a BlockIter made by from_blocks either yields
\* head_offset plus the index of the lowest 1-bit of the current nonzero head
\* (k computed without wrap-around, that bit cleared, head_offset the block
\* index times W, yields strictly ascending), or returns None; after the first
\* None every later call returns None and leaves head_offset unchanged.
C15_BitIsolation ==
    [][ run' # run =>
          /\ run'.nones > 0 => NoneOk
          /\ run'.nones = 0 => YieldOk
          /\ run.nones > 0 => run'.nones = run.nones + 1
      ]_vars

\* an iterator over two blocks, the first with its highest bit set, that has
\* yielded three positions or more, then returned None, and was called again
C15_Witness ==
    /\ Len(run.src) = 2
    /\ W - 1 \in run.src[1]
    /\ run.src[2] # zero
    /\ Len(run.out) >= 3
    /\ run.nones >= 2

====
